---- MODULE Spec2Model ----
(***************************************************************************)
(* Model of scripts/DICOM-CBCT-stats.py: the directory walk of             *)
(* process_directory with its derived filter, dedup test and the two       *)
(* vendor corrections, followed by the CSV export of dicom_headers_to_csv. *)
(* Text is modelled as sequences of one-character strings so that strip,   *)
(* the substring tests, the two regular expressions, clean_value and the   *)
(* csv writer are computed character by character.                         *)
(***************************************************************************)
EXTENDS Integers, Sequences, FiniteSets, TLC

(* ------------------------------ bounds -------------------------------- *)

\* number of directories in the tree under directory_path (the root is 1)
MaxDirs == 2
\* total number of directory entries that os.walk lists as files
MaxFiles == 3

(* ------------------------------- text --------------------------------- *)

Digits == <<"0", "1", "2", "3", "4", "5", "6", "7", "8", "9">>

IsDigit(c) == \E i \in 1..Len(Digits) : Digits[i] = c

DigitVal(c) == (CHOOSE i \in 1..Len(Digits) : Digits[i] = c) - 1

\* str.strip() strips these
IsSpace(c) == c \in {" ", "\t", "\n", "\r", "\f"}

\* s[i..j], empty when j < i
Slice(s, i, j) == SubSeq(s, i, j)

\* p occurs in s starting at position i
MatchesAt(p, s, i) ==
    /\ i >= 1
    /\ i + Len(p) - 1 <= Len(s)
    /\ \A k \in 1..Len(p) : s[i + k - 1] = p[k]

\* Python's  p in s  on two strings
StrContains(p, s) == \E i \in 1..(Len(s) + 1) : MatchesAt(p, s, i)

\* Python's str.strip()
strip(s) ==
    IF \A i \in 1..Len(s) : IsSpace(s[i])
    THEN <<>>
    ELSE LET a == CHOOSE i \in 1..Len(s) :
                     ~IsSpace(s[i]) /\ \A k \in 1..(i - 1) : IsSpace(s[k])
             b == CHOOSE i \in 1..Len(s) :
                     ~IsSpace(s[i]) /\ \A k \in (i + 1)..Len(s) : IsSpace(s[k])
         IN  Slice(s, a, b)

\* Python's str.replace(old, new) for a one-character old
ReplaceChar(s, old, new) == [i \in 1..Len(s) |-> IF s[i] = old THEN new ELSE s[i]]

\* end of the longest run of digits starting at i (i - 1 when there is none)
RECURSIVE DigitRunEnd(_, _)
DigitRunEnd(s, i) ==
    IF i <= Len(s) /\ IsDigit(s[i]) THEN DigitRunEnd(s, i + 1) ELSE i - 1

\* value of a string of decimal digits, as float() and int() read it
RECURSIVE DecimalValue(_)
DecimalValue(s) ==
    IF s = <<>> THEN 0
    ELSE 10 * DecimalValue(Slice(s, 1, Len(s) - 1)) + DigitVal(s[Len(s)])

\* str() of a non-negative int
RECURSIVE IntToChars(_)
IntToChars(n) ==
    IF n < 10 THEN <<Digits[n + 1]>>
    ELSE IntToChars(n \div 10) \o <<Digits[(n % 10) + 1]>>

(* ------------------------------ values -------------------------------- *)

\* An attribute value.  t is the Python type of the value: "None" (the
\* getattr default of an absent attribute), "str", "DS" and "IS" (pydicom's
\* decimal-string and integer-string numbers), "int" and "float".
None == [t |-> "None", s |-> <<>>, n |-> 0]

Str(s) == [t |-> "str", s |-> s, n |-> 0]

Num(t, n) == [t |-> t, s |-> <<>>, n |-> n]

\* isinstance(value, str)
IsStr(v) == v.t = "str"

\* truth value of  series_instance_uid  in the  if  of line 67
Truthy(v) == v.t # "None" /\ ~(v.t = "str" /\ v.s = <<>>)

\* str(value) as csv.writer renders a field (None is written as "")
ToText(v) ==
    CASE v.t = "str" -> v.s
      [] v.t = "None" -> <<>>
      [] v.t = "float" -> IntToChars(v.n) \o <<".", "0">>
      [] OTHER -> IntToChars(v.n)

(* --------------------- extract_value_from_comments -------------------- *)

sDAP == <<"D", "A", "P", ":">>

sUnit == <<"m", "G", "y", "c", "m", "2">>

NoMatch == [found |-> FALSE, text |-> <<>>]

\* end of a match of  DAP:(\d+mGycm2)  at position i, or 0
DAPMatchEnd(s, i) ==
    IF ~MatchesAt(sDAP, s, i) THEN 0
    ELSE LET e == DigitRunEnd(s, i + Len(sDAP))
         IN  IF e >= i + Len(sDAP) /\ MatchesAt(sUnit, s, e + 1)
             THEN e + Len(sUnit)
             ELSE 0

\* re.search("DAP:(\d+mGycm2)", s): the leftmost match, group(0)
DAPSearch(s) ==
    IF \E i \in 1..Len(s) : DAPMatchEnd(s, i) > 0
    THEN LET i == CHOOSE i \in 1..Len(s) :
                      /\ DAPMatchEnd(s, i) > 0
                      /\ \A k \in 1..(i - 1) : DAPMatchEnd(s, k) = 0
         IN  [found |-> TRUE, text |-> Slice(s, i, DAPMatchEnd(s, i))]
    ELSE NoMatch

\* end of a match of  [-+]?\d*\.\d+|\d+  at position i, or 0
NumberMatchEnd(s, i) ==
    LET j == IF i <= Len(s) /\ s[i] \in {"-", "+"} THEN i + 1 ELSE i
        k == DigitRunEnd(s, j) + 1
        f == DigitRunEnd(s, k + 1)
        d == DigitRunEnd(s, i)
    IN  IF k <= Len(s) /\ s[k] = "." /\ f >= k + 1 THEN f
        ELSE IF d >= i THEN d
        ELSE 0

\* re.search(r"[-+]?\d*\.\d+|\d+", s): the leftmost match, group(0)
NumberSearch(s) ==
    IF \E i \in 1..Len(s) : NumberMatchEnd(s, i) > 0
    THEN LET i == CHOOSE i \in 1..Len(s) :
                      /\ NumberMatchEnd(s, i) > 0
                      /\ \A k \in 1..(i - 1) : NumberMatchEnd(s, k) = 0
         IN  [found |-> TRUE, text |-> Slice(s, i, NumberMatchEnd(s, i))]
    ELSE NoMatch

\* extract_value_from_comments raises: re.search on None (TypeError), or
\* match.group(0) on the None of a failed search (AttributeError)
ExtractRaises(comments) ==
    \/ ~IsStr(comments)
    \/ ~DAPSearch(comments.s).found

\* variant: the number is searched in the whole comment, not in the match
extract_first_number(comments) ==
    LET m == NumberSearch(comments.s)
    IN  IF m.found THEN Str(m.text) ELSE None

\* the value extract_value_from_comments returns when it does not raise
extract_value_from_comments(comments) ==
    LET m == NumberSearch(DAPSearch(comments.s).text)
    IN  IF m.found THEN Str(m.text) ELSE None

\* float(x) of a str of digits or of a number; float(None) raises
FloatRaises(v) == v.t = "None" \/ (v.t = "str" /\ (v.s = <<>> \/ \E i \in 1..Len(v.s) : ~IsDigit(v.s[i])))

float(v) == IF v.t = "str" THEN Num("float", DecimalValue(v.s)) ELSE Num("float", v.n)

(* ----------------------------- clean_value ---------------------------- *)

clean_value(value) ==
    IF IsStr(value)
    THEN Str(ReplaceChar(ReplaceChar(ReplaceChar(value.s, "\n", " "), "\r", " "), ",", ";"))
    ELSE value

(* ----------------------------- csv writer ----------------------------- *)

Delimiter == ";"

QuoteChar == "\""

LineTerminator == <<"\r", "\n">>

\* QUOTE_MINIMAL: a field is quoted when it holds the delimiter, the quote
\* character or a character of the line terminator
NeedsQuotes(f) ==
    \E i \in 1..Len(f) : f[i] \in {Delimiter, QuoteChar, "\r", "\n"}

RECURSIVE DoubleQuotes(_)
DoubleQuotes(f) ==
    IF f = <<>> THEN <<>>
    ELSE (IF Head(f) = QuoteChar THEN <<QuoteChar, QuoteChar>> ELSE <<Head(f)>>)
             \o DoubleQuotes(Tail(f))

\* variant: fields are never quoted
WriteFieldUnquoted(f) == f

WriteField(f) ==
    IF NeedsQuotes(f) THEN <<QuoteChar>> \o DoubleQuotes(f) \o <<QuoteChar>> ELSE f

RECURSIVE JoinFields(_)
JoinFields(fs) ==
    IF fs = <<>> THEN <<>>
    ELSE IF Len(fs) = 1 THEN WriteField(fs[1])
    ELSE WriteField(fs[1]) \o <<Delimiter>> \o JoinFields(Tail(fs))

\* the text csv.writer.writerow puts in the file for a row of field texts
writerow(fs) == JoinFields(fs) \o LineTerminator

(* ----------------------------- the records ---------------------------- *)

\* the attributes of a parsed header that the program reads or writes;
\* an absent attribute holds None (ImageType: present = FALSE)
Header(it, uid, man, com, dose, img) ==
    [ImageType |-> it,
     SeriesInstanceUID |-> uid,
     Manufacturer |-> man,
     ImageComments |-> com,
     AcquiredImageAreaDoseProduct |-> dose,
     ImagesInAcquisition |-> img]

NoImageType == [present |-> FALSE, vals |-> <<>>]

Original == [present |-> TRUE, vals |-> <<"ORIGINAL", "PRIMARY">>]

Derived == [present |-> TRUE, vals |-> <<"DERIVED", "SECONDARY">>]

DerivedLast == [present |-> TRUE, vals |-> <<"ORIGINAL", "DERIVED">>]

uidA == Str(<<"1", ".", "2">>)

uidB == Str(<<"1", ".", "3">>)

sMorita == <<"M", "o", "r", "i", "t", "a">>

sPlanmeca == <<"P", "l", "a", "n", "m", "e", "c", "a">>

manSectra == Str(<<"S", "e", "c", "t", "r", "a">>)

manMorita == Str(<<" ", "J", ".", " ", "M", "o", "r", "i", "t", "a", " ">>)

manPlanmeca == Str(<<"P", "l", "a", "n", "m", "e", "c", "a", " ", "P", "r", "o", "M", "a", "x">>)

manBoth == Str(<<"P", "l", "a", "n", "m", "e", "c", "a", "/", "M", "o", "r", "i", "t", "a">>)

\* first occurrence of the dose pattern is DAP:12mGycm2
comDose12 == Str(<<"a", ",", "D", "A", "P", ":", "1", " ", "D", "A", "P", ":", "1", "2", "m", "G", "y", "c", "m", "2", "\n", "D", "A", "P", ":", "7", "m", "G", "y", "c", "m", "2">>)

\* first occurrence of the dose pattern is DAP:030mGycm2
comDose30 == Str(<<"D", "A", "P", ":", "0", "3", "0", "m", "G", "y", "c", "m", "2", " ", "\"", "x", "\"">>)

\* no occurrence of the dose pattern
comNoDose == Str(<<"D", "A", "P", ":", "1", ".", "5", "m", "G", "y", "c", "m", "2", ";", "\r", "\n">>)

\* what a file under the root can hold: dicom = FALSE is a file dcmread
\* rejects with InvalidDicomError
NotDicom == [dicom |-> FALSE, ds |-> Header(NoImageType, None, None, None, None, None)]

Dicom(ds) == [dicom |-> TRUE, ds |-> ds]

Contents ==
    {NotDicom,
     Dicom(Header(Original, uidA, manSectra, comNoDose, Num("DS", 50), Num("IS", 7))),
     Dicom(Header(Original, uidA, manMorita, comDose12, Num("DS", 50), None)),
     Dicom(Header(Original, uidB, manBoth, comDose30, Num("DS", 50), Num("IS", 7))),
     Dicom(Header(Original, uidB, manPlanmeca, comDose12, Num("DS", 50), Num("IS", 7))),
     Dicom(Header(Derived, uidA, None, None, None, None)),
     Dicom(Header(DerivedLast, uidB, manSectra, None, Num("DS", 50), Num("IS", 7))),
     Dicom(Header(Original, None, None, None, None, None)),
     Dicom(Header(Original, Str(<<>>), manMorita, comNoDose, None, None)),
     Dicom(Header(Original, uidA, None, None, Num("DS", 50), None)),
     Dicom(Header(Original, uidB, manMorita, comNoDose, Num("DS", 50), None)),
     Dicom(Header(Original, uidA, manPlanmeca, None, None, None)),
     Dicom(Header(NoImageType, uidA, manSectra, None, Num("DS", 50), None))}

\* a smaller choice, around the Planmeca record, for trees of any shape
PlanmecaContents ==
    {NotDicom,
     Dicom(Header(Original, uidB, manPlanmeca, comDose12, Num("DS", 50), Num("IS", 7))),
     Dicom(Header(Derived, uidA, None, None, None, None)),
     Dicom(Header(Original, uidA, manPlanmeca, None, None, None)),
     Dicom(Header(NoImageType, uidA, manSectra, None, Num("DS", 50), None))}

(* ---------------------------- the file tree --------------------------- *)

Dirs == 1..MaxDirs

\* an entry os.walk lists under files: a regular file, or a dangling
\* symbolic link (not a directory, so listed; os.path.isfile is False and
\* opening it raises FileNotFoundError)
Kinds == {"regular", "dangling"}

SeqsUpTo(S, n) == UNION {[1..k -> S] : k \in 0..n}

RECURSIVE SumLen(_, _)
SumLen(f, d) == IF d = 0 THEN 0 ELSE Len(f[d]) + SumLen(f, d - 1)

\* parent[d] is the directory holding d (0 for the root); files[d] are the
\* non-directory entries of d in listing order
Trees ==
    {t \in [parent : [Dirs -> 0..MaxDirs], files : [Dirs -> SeqsUpTo(Kinds, MaxFiles)]] :
        /\ t.parent[1] = 0
        /\ \A d \in Dirs \ {1} : t.parent[d] \in 1..(d - 1)
        /\ SumLen(t.files, MaxDirs) <= MaxFiles}

\* os.walk(top), top-down: top itself, then each subdirectory in listing order
RECURSIVE WalkDirs(_, _)
RECURSIVE WalkSubDirs(_, _, _)
WalkDirs(t, d) == <<d>> \o WalkSubDirs(t, d, 1)

WalkSubDirs(t, d, c) ==
    IF c > MaxDirs THEN <<>>
    ELSE (IF t.parent[c] = d THEN WalkDirs(t, c) ELSE <<>>) \o WalkSubDirs(t, d, c + 1)

\* the (root, file) pairs the two nested loops of lines 59-60 visit, in order
RECURSIVE FilesIn(_, _)
FilesIn(t, ds) ==
    IF ds = <<>> THEN <<>>
    ELSE [i \in 1..Len(t.files[Head(ds)]) |->
              [root |-> Head(ds), kind |-> t.files[Head(ds)][i]]]
         \o FilesIn(t, Tail(ds))

WalkFiles(t) == FilesIn(t, WalkDirs(t, 1))

\* every file lies in the root; the subdirectories are empty and nested
IsFlat(t) == \A d \in Dirs \ {1} : t.files[d] = <<>> /\ t.parent[d] = d - 1

\* variant: the files of root itself only, no descent
count_files_flat(t, root) ==
    Len(SelectSeq(FilesIn(t, <<root>>), LAMBDA e : e.kind = "regular"))

\* count_files(root): the entries under root, recursively, for which
\* os.path.isfile holds
count_files(t, root) ==
    Len(SelectSeq(FilesIn(t, WalkDirs(t, root)), LAMBDA e : e.kind = "regular"))

(* --------------------------- process_directory ------------------------ *)

\* variant: only the first value of ImageType is compared
IsDerivedFirstValue(ds) == ds.ImageType.vals[1] = "DERIVED"

\* "DERIVED" in getattr(dicom, "ImageType", None), for a present ImageType.
\* (A one-valued ImageType is a str and the test a substring test; on the
\* defined terms ORIGINAL, DERIVED, PRIMARY, SECONDARY the two agree.)
IsDerived(ds) == \E i \in 1..Len(ds.ImageType.vals) : ds.ImageType.vals[i] = "DERIVED"

\* the dict dicom_headers: a sequence of [key, val] in insertion order
HasKey(map, k) == \E i \in 1..Len(map) : map[i].key = k

\* map[k] = v: a new key goes last, an old key keeps its place
DictSet(map, k, v) ==
    IF HasKey(map, k)
    THEN [i \in 1..Len(map) |-> IF map[i].key = k THEN [key |-> k, val |-> v] ELSE map[i]]
    ELSE Append(map, [key |-> k, val |-> v])

\* variant: the identifier is not looked up in the dict
ShouldStoreNoDedup(uid, map) == Truthy(uid)

\* variant: the identifier is not tested for being empty
ShouldStoreNoTruthy(uid, map) == ~HasKey(map, uid)

\* the condition of line 67
ShouldStore(uid, map) == Truthy(uid) /\ ~HasKey(map, uid)

PlanmecaDoseFactor == 100

IsMorita(ds) == StrContains(sMorita, strip(ds.Manufacturer.s))

IsPlanmeca(ds) == StrContains(sPlanmeca, strip(ds.Manufacturer.s))

\* lines 69-70
MoritaCorrection(ds) ==
    [ds EXCEPT !.AcquiredImageAreaDoseProduct =
                   float(extract_value_from_comments(ds.ImageComments))]

\* lines 72-73; nfiles is count_files(root)
PlanmecaCorrection(ds, nfiles) ==
    [ds EXCEPT !.ImagesInAcquisition = Num("int", nfiles),
               !.AcquiredImageAreaDoseProduct =
                   Num("float", float(ds.AcquiredImageAreaDoseProduct).n * PlanmecaDoseFactor)]

\* lines 68-73: which rule the if/elif picks
Rule(ds) ==
    IF IsMorita(ds) THEN "Morita"
    ELSE IF IsPlanmeca(ds) THEN "Planmeca"
    ELSE "none"

\* lines 68-73 raise: .strip() on the None of an absent Manufacturer, a failed
\* extraction or float(None) for Morita, an absent or unconvertible dose for
\* Planmeca.  "" when nothing is raised.
NormalizeError(ds) ==
    IF ~IsStr(ds.Manufacturer) THEN "missing_manufacturer"
    ELSE IF Rule(ds) = "Morita"
         THEN (IF ExtractRaises(ds.ImageComments) THEN "morita_no_dose"
               ELSE IF FloatRaises(extract_value_from_comments(ds.ImageComments))
                    THEN "morita_no_dose"
               ELSE "")
    ELSE IF Rule(ds) = "Planmeca"
         THEN (IF FloatRaises(ds.AcquiredImageAreaDoseProduct) THEN "planmeca_no_dose" ELSE "")
    ELSE ""

\* variant: two independent ifs instead of if/elif
NormalizeBoth(ds, nfiles) ==
    LET a == IF IsMorita(ds) THEN MoritaCorrection(ds) ELSE ds
    IN  IF IsPlanmeca(ds) THEN PlanmecaCorrection(a, nfiles) ELSE a

\* lines 68-73 when nothing is raised: the header as it is stored
Normalize(ds, nfiles) ==
    CASE Rule(ds) = "Morita" -> MoritaCorrection(ds)
      [] Rule(ds) = "Planmeca" -> PlanmecaCorrection(ds, nfiles)
      [] OTHER -> ds

(* ------------------------- dicom_headers_to_csv ----------------------- *)

\* selected_columns, restricted to the attributes of Header
selected_columns ==
    <<"SeriesInstanceUID", "AcquiredImageAreaDoseProduct", "ImagesInAcquisition",
      "Manufacturer", "ImageComments">>

FieldText(f) ==
    CASE f = "SeriesInstanceUID" -> <<"S", "e", "r", "i", "e", "s", "I", "n", "s", "t", "a", "n", "c", "e", "U", "I", "D">>
      [] f = "AcquiredImageAreaDoseProduct" -> <<"A", "c", "q", "u", "i", "r", "e", "d", "I", "m", "a", "g", "e", "A", "r", "e", "a", "D", "o", "s", "e", "P", "r", "o", "d", "u", "c", "t">>
      [] f = "ImagesInAcquisition" -> <<"I", "m", "a", "g", "e", "s", "I", "n", "A", "c", "q", "u", "i", "s", "i", "t", "i", "o", "n">>
      [] f = "Manufacturer" -> <<"M", "a", "n", "u", "f", "a", "c", "t", "u", "r", "e", "r">>
      [] f = "ImageComments" -> <<"I", "m", "a", "g", "e", "C", "o", "m", "m", "e", "n", "t", "s">>

\* getattr(dicom, field, ""): an absent attribute gives the default
GetAttr(ds, f) == IF ds[f].t = "None" THEN Str(<<>>) ELSE ds[f]

\* line 151: the row dict, as the values in fieldnames order
RowOf(ds, select) == [j \in 1..Len(select) |-> clean_value(GetAttr(ds, select[j]))]

\* writer.writeheader()
HeaderLine(select) == writerow([j \in 1..Len(select) |-> FieldText(select[j])])

\* writer.writerow(row)
RowLine(ds, select) ==
    LET row == RowOf(ds, select)
    IN  writerow([j \in 1..Len(select) |-> ToText(row[j])])

(* ------------------------------ the state ----------------------------- *)

VARIABLES
    fs,             \* the file tree under directory_path
    corpus,         \* which contents the regular files of the tree may hold:
                    \* "all" (Contents) or "planmeca" (PlanmecaContents)
    pos,            \* index in WalkFiles(fs) of the next file the walk visits
    dicom_headers,  \* the dict of line 58
    traversed,      \* history of the walk: what each visited file held and
                    \* what became of it; dropped when process_directory returns
    pc,             \* "walk", "export", "header", "rows", "done", "aborted"
    abort,          \* the cause of the uncaught exception, "" when there is none
    csvfile,        \* the output file: its state and the lines written to it
    rowIdx          \* index in dicom_headers of the next row to write

vars == <<fs, corpus, pos, dicom_headers, traversed, pc, abort, csvfile, rowIdx>>

\* The inputs: any tree within the bounds whose files hold one of
\* PlanmecaContents, or a flat folder whose files hold any of Contents.
Init ==
    /\ fs \in Trees
    /\ corpus \in {"all", "planmeca"}
    /\ corpus = "all" => IsFlat(fs)
    /\ pos = 1
    /\ dicom_headers = <<>>
    /\ traversed = <<>>
    /\ pc = "walk"
    /\ abort = ""
    /\ csvfile = [state |-> "untouched", lines |-> <<>>]
    /\ rowIdx = 1

Cur == WalkFiles(fs)[pos]

\* what dcmread can return for the file at hand
FileContents == IF corpus = "all" THEN Contents ELSE PlanmecaContents

\* the walk of line 59 has files left
InLoop == pc = "walk" /\ pos <= Len(WalkFiles(fs))

\* variant: the return of line 78 sits inside the loop
WalkFinishedEarly == pos > 1

\* the loops of lines 59-60 are exhausted
WalkFinished == pos > Len(WalkFiles(fs))

\* one history entry: dispatched = the Manufacturer lookup of line 68 was
\* evaluated; applied = the correction that ran to its end
Entry(c, dispatched, applied, outcome) ==
    [c |-> c, root |-> Cur.root, dispatched |-> dispatched, applied |-> applied,
     outcome |-> outcome]

Continue(e) ==
    /\ traversed' = Append(traversed, e)
    /\ pos' = pos + 1
    /\ UNCHANGED <<fs, corpus, pc, abort, csvfile, rowIdx>>

Raise(e, cause) ==
    /\ traversed' = Append(traversed, e)
    /\ pc' = "aborted"
    /\ abort' = cause
    /\ UNCHANGED <<fs, corpus, pos, dicom_headers, csvfile, rowIdx>>

\* lines 41-42: dcmread raises an error that is not InvalidDicomError
FailRead ==
    /\ InLoop
    /\ Cur.kind = "dangling"
    /\ Raise(Entry(NotDicom, FALSE, "none", "fatal"), "io_error")

\* lines 44-45, 62: InvalidDicomError, the file is skipped
SkipNotDicom ==
    /\ InLoop
    /\ Cur.kind = "regular"
    /\ \E c \in FileContents :
        /\ ~c.dicom
        /\ Continue(Entry(c, FALSE, "none", "not_dicom"))
        /\ UNCHANGED dicom_headers

\* line 64:  "DERIVED" in None  raises TypeError
FailImageType ==
    /\ InLoop
    /\ Cur.kind = "regular"
    /\ \E c \in FileContents :
        /\ c.dicom
        /\ ~c.ds.ImageType.present
        /\ Raise(Entry(c, FALSE, "none", "fatal"), "missing_image_type")

\* lines 64-65
SkipDerived ==
    /\ InLoop
    /\ Cur.kind = "regular"
    /\ \E c \in FileContents :
        /\ c.dicom
        /\ c.ds.ImageType.present
        /\ IsDerived(c.ds)
        /\ Continue(Entry(c, FALSE, "none", "derived"))
        /\ UNCHANGED dicom_headers

\* lines 66-67: no identifier, or one the dict already holds
DropRecord ==
    /\ InLoop
    /\ Cur.kind = "regular"
    /\ \E c \in FileContents :
        /\ c.dicom
        /\ c.ds.ImageType.present
        /\ ~IsDerived(c.ds)
        /\ ~ShouldStore(c.ds.SeriesInstanceUID, dicom_headers)
        /\ Continue(Entry(c, FALSE, "none", "dropped"))
        /\ UNCHANGED dicom_headers

\* lines 68-73 raise
FailNormalize ==
    /\ InLoop
    /\ Cur.kind = "regular"
    /\ \E c \in FileContents :
        /\ c.dicom
        /\ c.ds.ImageType.present
        /\ ~IsDerived(c.ds)
        /\ ShouldStore(c.ds.SeriesInstanceUID, dicom_headers)
        /\ NormalizeError(c.ds) # ""
        /\ Raise(Entry(c, TRUE, "none", "fatal"), NormalizeError(c.ds))

\* lines 68-75: the header is corrected and stored
StoreRecord ==
    /\ InLoop
    /\ Cur.kind = "regular"
    /\ \E c \in FileContents :
        /\ c.dicom
        /\ c.ds.ImageType.present
        /\ ~IsDerived(c.ds)
        /\ ShouldStore(c.ds.SeriesInstanceUID, dicom_headers)
        /\ NormalizeError(c.ds) = ""
        /\ dicom_headers' =
              DictSet(dicom_headers, c.ds.SeriesInstanceUID,
                      [ds |-> Normalize(c.ds, count_files(fs, Cur.root)), src |-> pos])
        /\ Continue(Entry(c, TRUE, Rule(c.ds), "stored"))

\* line 78, then line 170 calls dicom_headers_to_csv
ReturnHeaders ==
    /\ pc = "walk"
    /\ WalkFinished
    /\ pc' = "export"
    /\ traversed' = <<>>
    /\ UNCHANGED <<fs, corpus, pos, dicom_headers, abort, csvfile, rowIdx>>

\* line 147: open(output_csv, mode='w') creates or truncates the file
OpenCsv ==
    /\ pc = "export"
    /\ csvfile' = [state |-> "open", lines |-> <<>>]
    /\ pc' = "header"
    /\ UNCHANGED <<fs, corpus, pos, dicom_headers, traversed, abort, rowIdx>>

\* line 147: open raises OSError
OpenFails ==
    /\ pc = "export"
    /\ pc' = "aborted"
    /\ abort' = "output_path"
    /\ UNCHANGED <<fs, corpus, pos, dicom_headers, traversed, csvfile, rowIdx>>

\* line 149
WriteHeader ==
    /\ pc = "header"
    /\ csvfile' = [csvfile EXCEPT !.lines = Append(@, HeaderLine(selected_columns))]
    /\ pc' = "rows"
    /\ rowIdx' = 1
    /\ UNCHANGED <<fs, corpus, pos, dicom_headers, traversed, abort>>

\* lines 150-153, one iteration
WriteRow ==
    /\ pc = "rows"
    /\ rowIdx <= Len(dicom_headers)
    /\ csvfile' = [csvfile EXCEPT !.lines =
                      Append(@, RowLine(dicom_headers[rowIdx].val.ds, selected_columns))]
    /\ rowIdx' = rowIdx + 1
    /\ UNCHANGED <<fs, corpus, pos, dicom_headers, traversed, pc, abort>>

\* the with block of line 147 ends
CloseCsv ==
    /\ pc = "rows"
    /\ rowIdx > Len(dicom_headers)
    /\ csvfile' = [csvfile EXCEPT !.state = "closed"]
    /\ pc' = "done"
    /\ UNCHANGED <<fs, corpus, pos, dicom_headers, traversed, abort, rowIdx>>

Next ==
    \/ FailRead
    \/ SkipNotDicom
    \/ FailImageType
    \/ SkipDerived
    \/ DropRecord
    \/ FailNormalize
    \/ StoreRecord
    \/ ReturnHeaders
    \/ OpenCsv
    \/ OpenFails
    \/ WriteHeader
    \/ WriteRow
    \/ CloseCsv

Spec == Init /\ [][Next]_vars

(* ------------------------- reading the file back ---------------------- *)

\* a line of the output without its line terminator
Body(line) == Slice(line, 1, Len(line) - Len(LineTerminator))

\* number of quote characters in s[i..j]
QuotesIn(s, i, j) == Cardinality({x \in i..j : s[x] = QuoteChar})

\* the closing quote of the quoted field opened at i: the first quote after
\* i that is not half of a doubled quote
ClosingQuote(s, i) ==
    CHOOSE j \in (i + 1)..Len(s) :
        LET closes(x) == /\ s[x] = QuoteChar
                         /\ QuotesIn(s, i + 1, x - 1) % 2 = 0
                         /\ ~(x < Len(s) /\ s[x + 1] = QuoteChar)
        IN  closes(j) /\ \A x \in (i + 1)..(j - 1) : ~closes(x)

\* a doubled quote becomes one
RECURSIVE Undouble(_)
Undouble(f) ==
    IF f = <<>> THEN <<>>
    ELSE IF Len(f) >= 2 /\ f[1] = QuoteChar /\ f[2] = QuoteChar
         THEN <<QuoteChar>> \o Undouble(Slice(f, 3, Len(f)))
    ELSE <<Head(f)>> \o Undouble(Tail(f))

\* position of the first delimiter at or after i, Len(s) + 1 when none
NextDelimiter(s, i) ==
    IF \E j \in i..Len(s) : s[j] = Delimiter
    THEN CHOOSE j \in i..Len(s) :
             s[j] = Delimiter /\ \A x \in i..(j - 1) : s[x] # Delimiter
    ELSE Len(s) + 1

\* csv.reader with delimiter ';' on one line: the fields from position i on,
\* quotes undone
RECURSIVE ParseFields(_, _)
ParseFields(s, i) ==
    IF i <= Len(s) /\ s[i] = QuoteChar
    THEN LET c == ClosingQuote(s, i)
             f == Undouble(Slice(s, i + 1, c - 1))
         IN  IF c >= Len(s) THEN <<f>> ELSE <<f>> \o ParseFields(s, c + 2)
    ELSE LET d == NextDelimiter(s, i)
             f == Slice(s, i, d - 1)
         IN  IF d > Len(s) THEN <<f>> ELSE <<f>> \o ParseFields(s, d + 1)

ReadRow(line) == ParseFields(Body(line), 1)

\* number of columns of a line split on the delimiter character
SplitCount(line) ==
    1 + Cardinality({i \in 1..Len(Body(line)) : Body(line)[i] = Delimiter})

(* ------------------------- notions of the claims ---------------------- *)

HasChar(s, c) == \E i \in 1..Len(s) : s[i] = c

\* the image-type attribute of a header contains the token DERIVED
HasDerivedToken(ds) ==
    ds.ImageType.present /\ "DERIVED" \in {ds.ImageType.vals[i] : i \in 1..Len(ds.ImageType.vals)}

\* a traversed file that parsed to a non-derived record
NonDerived(e) == e.c.dicom /\ e.c.ds.ImageType.present /\ ~HasDerivedToken(e.c.ds)

\* indexes of the traversed non-derived records whose identifier is s
RecordsOf(s) ==
    {i \in 1..Len(traversed) : NonDerived(traversed[i]) /\ traversed[i].c.ds.SeriesInstanceUID = s}

\* the identifiers met so far
SeenUIDs ==
    {traversed[i].c.ds.SeriesInstanceUID : i \in {k \in 1..Len(traversed) :
        traversed[k].c.dicom /\ Truthy(traversed[k].c.ds.SeriesInstanceUID)}}

EntriesOf(s) == {k \in 1..Len(dicom_headers) : dicom_headers[k].key = s}

\* the dict entries whose source file is still in the history of the walk
Stored == {k \in 1..Len(dicom_headers) : dicom_headers[k].val.src <= Len(traversed)}

\* the header as parsed from the file the entry k came from
Parsed(k) == traversed[dicom_headers[k].val.src].c.ds

StoredDs(k) == dicom_headers[k].val.ds

NamesMorita(ds) == IsStr(ds.Manufacturer) /\ StrContains(sMorita, strip(ds.Manufacturer.s))

NamesPlanmeca(ds) == IsStr(ds.Manufacturer) /\ StrContains(sPlanmeca, strip(ds.Manufacturer.s))

\* the occurrences DAP:<digits>mGycm2 in s, as <<start, last digit>>
DoseOccurrences(s) ==
    UNION {{<<i, j>> : j \in {x \in (i + Len(sDAP))..Len(s) :
                                /\ \A k \in (i + Len(sDAP))..x : IsDigit(s[k])
                                /\ MatchesAt(sUnit, s, x + 1)}} :
           i \in {y \in 1..Len(s) : MatchesAt(sDAP, s, y)}}

\* the number formed by the digits of the first occurrence (-1 without one)
FirstDose(s) ==
    LET occ == DoseOccurrences(s)
    IN  IF occ = {} THEN -1
        ELSE LET o == CHOOSE o \in occ : \A q \in occ : o[1] <= q[1]
             IN  DecimalValue(Slice(s, o[1] + Len(sDAP), o[2]))

\* directory d is root or lies below it
RECURSIVE Under(_, _, _)
Under(t, d, root) ==
    d = root \/ (t.parent[d] # 0 /\ Under(t, t.parent[d], root))

\* the regular files found by recursive descent of root
RegularFilesUnder(t, root) ==
    Cardinality({f \in Dirs \X (1..MaxFiles) :
        /\ f[2] <= Len(t.files[f[1]])
        /\ t.files[f[1]][f[2]] = "regular"
        /\ Under(t, f[1], root)})

(* ------------------------------ the claims ---------------------------- *)

Min(S) == CHOOSE x \in S : \A y \in S : x <= y

\* C1: while process_directory runs and when it returns, every identifier
\* of which a non-derived record has been traversed has exactly one entry in
\* the dict, and that entry is the first such record in traversal order.
C1_DedupFirstWins ==
    pc = "walk" =>
        \A s \in SeenUIDs :
            RecordsOf(s) # {} =>
                /\ Cardinality(EntriesOf(s)) = 1
                /\ \A k \in EntriesOf(s) :
                      /\ dicom_headers[k].val.src = Min(RecordsOf(s))
                      /\ StoredDs(k).SeriesInstanceUID = s
                      /\ StoredDs(k).Manufacturer = traversed[Min(RecordsOf(s))].c.ds.Manufacturer

\* the walk is over; a derived record, the record that was stored and a
\* different later record all carried the same identifier
C1_Witness ==
    /\ pc = "walk"
    /\ pos > Len(WalkFiles(fs))
    /\ Len(traversed) = 3
    /\ traversed[1].outcome = "derived"
    /\ traversed[2].outcome = "stored"
    /\ traversed[3].outcome = "dropped"
    /\ NonDerived(traversed[3])
    /\ traversed[3].c # traversed[2].c
    /\ traversed[1].c.ds.SeriesInstanceUID = traversed[2].c.ds.SeriesInstanceUID
    /\ traversed[3].c.ds.SeriesInstanceUID = traversed[2].c.ds.SeriesInstanceUID

\* C2: no record in the dict has an image type containing DERIVED, and no
\* entry comes from a file whose image type contained it.
C2_DerivedExcluded ==
    /\ \A k \in 1..Len(dicom_headers) : ~HasDerivedToken(StoredDs(k))
    /\ \A k \in Stored : ~HasDerivedToken(Parsed(k))

\* a derived record was traversed before and after the record stored under
\* the same identifier
C2_Witness ==
    /\ Len(traversed) = 3
    /\ HasDerivedToken(traversed[1].c.ds)
    /\ traversed[2].outcome = "stored"
    /\ HasDerivedToken(traversed[3].c.ds)
    /\ traversed[3].c.ds.ImageType.vals[1] # "DERIVED"
    /\ Len(dicom_headers) = 1

\* C3: a stored record whose manufacturer names Planmeca and not Morita has
\* 100 times the parsed dose, and as images in acquisition the number of
\* regular files found by recursive descent of the directory of its file.
C3_PlanmecaCorrection ==
    \A k \in Stored :
        (NamesPlanmeca(Parsed(k)) /\ ~NamesMorita(Parsed(k))) =>
            /\ StoredDs(k).AcquiredImageAreaDoseProduct.t = "float"
            /\ StoredDs(k).AcquiredImageAreaDoseProduct.n
                   = 100 * Parsed(k).AcquiredImageAreaDoseProduct.n
            /\ StoredDs(k).ImagesInAcquisition.t = "int"
            /\ StoredDs(k).ImagesInAcquisition.n
                   = RegularFilesUnder(fs, traversed[dicom_headers[k].val.src].root)

\* a Planmeca record with dose 50 in a root directory that also holds a
\* dangling link and has a regular file in its subdirectory
C3_Witness ==
    \E k \in Stored :
        /\ NamesPlanmeca(Parsed(k))
        /\ Parsed(k).AcquiredImageAreaDoseProduct = Num("DS", 50)
        /\ StoredDs(k).AcquiredImageAreaDoseProduct.n = 5000
        /\ StoredDs(k).ImagesInAcquisition.n = 2
        /\ traversed[dicom_headers[k].val.src].root = 1
        /\ fs.files[1] = <<"regular", "dangling">>
        /\ \E d \in Dirs \ {1} : fs.files[d] = <<"regular">>

\* C4: a stored record whose manufacturer names Morita and whose comments
\* hold an occurrence of DAP:<digits>mGycm2 has as dose the number formed by
\* the digits of the first occurrence, whatever dose it was parsed with.
C4_MoritaCorrection ==
    \A k \in Stored :
        (/\ NamesMorita(Parsed(k))
         /\ IsStr(Parsed(k).ImageComments)
         /\ DoseOccurrences(Parsed(k).ImageComments.s) # {}) =>
            StoredDs(k).AcquiredImageAreaDoseProduct
                = Num("float", FirstDose(Parsed(k).ImageComments.s))

\* a Morita record parsed with dose 50 whose comments hold DAP:12mGycm2 first
\* and a second occurrence later
C4_Witness ==
    \E k \in Stored :
        /\ NamesMorita(Parsed(k))
        /\ Parsed(k).AcquiredImageAreaDoseProduct = Num("DS", 50)
        /\ Cardinality(DoseOccurrences(Parsed(k).ImageComments.s)) = 2
        /\ StoredDs(k).AcquiredImageAreaDoseProduct.n = 12

\* C5: a record naming neither vendor is stored as parsed; a record naming
\* Morita (with or without Planmeca) differs from the parsed one in the dose
\* only, which is the extracted one; a record naming Planmeca only differs
\* in dose and slice count only, the dose being 100 times the parsed one.
C5_VendorDispatch ==
    \A k \in Stored :
        LET p == Parsed(k)
            d == StoredDs(k)
            e == traversed[dicom_headers[k].val.src]
        IN  /\ (~NamesMorita(p) /\ ~NamesPlanmeca(p)) => (d = p /\ e.applied = "none")
            /\ NamesMorita(p) =>
                  /\ d = [p EXCEPT !.AcquiredImageAreaDoseProduct =
                                       Num("float", FirstDose(p.ImageComments.s))]
                  /\ e.applied = "Morita"
            /\ (NamesPlanmeca(p) /\ ~NamesMorita(p)) =>
                  /\ d = [p EXCEPT !.AcquiredImageAreaDoseProduct =
                                       Num("float", 100 * p.AcquiredImageAreaDoseProduct.n),
                                   !.ImagesInAcquisition = d.ImagesInAcquisition]
                  /\ e.applied = "Planmeca"

\* the dict holds a record naming both vendors and a record naming neither
C5_Witness ==
    \E k1, k2 \in Stored :
        /\ NamesMorita(Parsed(k1)) /\ NamesPlanmeca(Parsed(k1))
        /\ Parsed(k1).ImagesInAcquisition = Num("IS", 7)
        /\ IsStr(Parsed(k2).Manufacturer)
        /\ ~NamesMorita(Parsed(k2)) /\ ~NamesPlanmeca(Parsed(k2))
        /\ Parsed(k2).AcquiredImageAreaDoseProduct = Num("DS", 50)

\* C6: every string value written by the export is free of line feeds,
\* carriage returns and semicolons after clean_value, and every data line
\* split on the semicolon has as many columns as there are selected fields.
C6_Sanitized ==
    \A n \in 2..Len(csvfile.lines) :
        /\ SplitCount(csvfile.lines[n]) = Len(selected_columns)
        /\ \A j \in 1..Len(selected_columns) :
              IsStr(GetAttr(StoredDs(n - 1), selected_columns[j])) =>
                  LET v == RowOf(StoredDs(n - 1), selected_columns)[j].s
                  IN  ~HasChar(v, "\n") /\ ~HasChar(v, "\r") /\ ~HasChar(v, Delimiter)

C8_OnlyTwoFatalCases ==
    pc = "aborted" =>
        abort \in {"missing_manufacturer", "morita_no_dose", "io_error", "output_path"}

\* C9: the output file is touched only once every file has been traversed,
\* it stays untouched when the traversal aborts, and the dict changes only
\* during the traversal, before the file is opened.
C9_StageSeparation ==
    /\ [](csvfile.state # "untouched" =>
             pos > Len(WalkFiles(fs)) /\ pc \in {"header", "rows", "done"})
    /\ [](pc \in {"export", "header", "rows", "done"} => pos > Len(WalkFiles(fs)))
    /\ []((pc = "aborted" /\ abort # "output_path") =>
             csvfile = [state |-> "untouched", lines |-> <<>>])
    /\ [][dicom_headers' # dicom_headers =>
             pc = "walk" /\ csvfile.state = "untouched" /\ csvfile'.state = "untouched"]_vars

\* rows are being written: the first of two is in the file
C9_Witness ==
    /\ pc = "rows"
    /\ rowIdx = 2
    /\ Len(dicom_headers) = 2
    /\ Len(csvfile.lines) = 2

====
